---------------------------- MODULE Spec2Model ----------------------------
(***************************************************************************)
(* Model of CAtomic.h (Sources/FuturesPrivate/include/CAtomic.h): the      *)
(* memory-order enumerations, AtomicMemoryOrderStrongestLoadOrder, and the *)
(* per-type atomic operation family generated by _CATOMIC_VAR and          *)
(* _CATOMIC_INTEGER.  Every atomic operation on a cell is one indivisible  *)
(* step (C11 atomics are linearizable per object), so an interleaving of   *)
(* threads is the order in which their steps are taken.                    *)
(*                                                                         *)
(* The header is modelled as compiled without NDEBUG: assert() is live and *)
(* a failed assertion aborts the process.                                  *)
(***************************************************************************)
EXTENDS Integers, Sequences, FiniteSets

(***************************************************************************)
(* enum AtomicMemoryOrder: the enumerators take the values of the C11      *)
(* memory_order enumerators, which <stdatomic.h> numbers 0..5 in order.    *)
(***************************************************************************)
AtomicMemoryOrderRelaxed == 0
AtomicMemoryOrderConsume == 1
AtomicMemoryOrderAcquire == 2
AtomicMemoryOrderRelease == 3
AtomicMemoryOrderAcqrel == 4
AtomicMemoryOrderSeqcst == 5

AtomicMemoryOrder ==
    { AtomicMemoryOrderRelaxed, AtomicMemoryOrderConsume, AtomicMemoryOrderAcquire,
      AtomicMemoryOrderRelease, AtomicMemoryOrderAcqrel, AtomicMemoryOrderSeqcst }

\* enum AtomicLoadMemoryOrder: the same numbering, without Release and Acqrel.
AtomicLoadMemoryOrderRelaxed == 0
AtomicLoadMemoryOrderConsume == 1
AtomicLoadMemoryOrderAcquire == 2
AtomicLoadMemoryOrderSeqcst == 5

AtomicLoadMemoryOrder ==
    { AtomicLoadMemoryOrderRelaxed, AtomicLoadMemoryOrderConsume,
      AtomicLoadMemoryOrderAcquire, AtomicLoadMemoryOrderSeqcst }

\* enum AtomicStoreMemoryOrder: without Acquire and Acqrel.
AtomicStoreMemoryOrderRelaxed == 0
AtomicStoreMemoryOrderConsume == 1
AtomicStoreMemoryOrderRelease == 3
AtomicStoreMemoryOrderSeqcst == 5

AtomicStoreMemoryOrder ==
    { AtomicStoreMemoryOrderRelaxed, AtomicStoreMemoryOrderConsume,
      AtomicStoreMemoryOrderRelease, AtomicStoreMemoryOrderSeqcst }

\* The enums are plain C enums over unsigned int: a caller can pass a value
\* that is none of the enumerators.  MaxRawOrder bounds the raw values tried.
MaxRawOrder == 7
RawOrder == 0..MaxRawOrder

\* A mutant of AtomicMemoryOrderStrongestLoadOrder: Release mapped to Acquire.
StrongestLoadOrderReleaseAsAcquire(self) ==
    CASE self = AtomicMemoryOrderRelaxed -> AtomicLoadMemoryOrderRelaxed
      [] self = AtomicMemoryOrderConsume -> AtomicLoadMemoryOrderConsume
      [] self = AtomicMemoryOrderAcquire -> AtomicLoadMemoryOrderAcquire
      [] self = AtomicMemoryOrderRelease -> AtomicLoadMemoryOrderAcquire
      [] self = AtomicMemoryOrderAcqrel -> AtomicLoadMemoryOrderAcquire
      [] self = AtomicMemoryOrderSeqcst -> AtomicLoadMemoryOrderSeqcst
      [] OTHER -> AtomicLoadMemoryOrderSeqcst

\* A mutant of AtomicMemoryOrderStrongestLoadOrder: the default case Relaxed.
StrongestLoadOrderDefaultRelaxed(self) ==
    CASE self = AtomicMemoryOrderRelaxed -> AtomicLoadMemoryOrderRelaxed
      [] self = AtomicMemoryOrderConsume -> AtomicLoadMemoryOrderConsume
      [] self = AtomicMemoryOrderAcquire -> AtomicLoadMemoryOrderAcquire
      [] self = AtomicMemoryOrderRelease -> AtomicLoadMemoryOrderRelaxed
      [] self = AtomicMemoryOrderAcqrel -> AtomicLoadMemoryOrderAcquire
      [] self = AtomicMemoryOrderSeqcst -> AtomicLoadMemoryOrderSeqcst
      [] OTHER -> AtomicLoadMemoryOrderRelaxed

\* AtomicMemoryOrderStrongestLoadOrder: the switch, with its default case.
AtomicMemoryOrderStrongestLoadOrder(self) ==
    CASE self = AtomicMemoryOrderRelaxed -> AtomicLoadMemoryOrderRelaxed
      [] self = AtomicMemoryOrderConsume -> AtomicLoadMemoryOrderConsume
      [] self = AtomicMemoryOrderAcquire -> AtomicLoadMemoryOrderAcquire
      [] self = AtomicMemoryOrderRelease -> AtomicLoadMemoryOrderRelaxed
      [] self = AtomicMemoryOrderAcqrel -> AtomicLoadMemoryOrderAcquire
      [] self = AtomicMemoryOrderSeqcst -> AtomicLoadMemoryOrderSeqcst
      [] OTHER -> AtomicLoadMemoryOrderSeqcst

(***************************************************************************)
(* The scalar types the macros are instantiated for.  The model carries    *)
(* the boolean type and the two 8-bit integer types; the wider integer     *)
(* types are generated by the same macro text.                             *)
(***************************************************************************)
AtomicBool == "AtomicBool"
AtomicInt8 == "AtomicInt8"
AtomicUInt8 == "AtomicUInt8"

IntegerTypes == { AtomicInt8, AtomicUInt8 }
ScalarTypes == { AtomicBool } \cup IntegerTypes

\* Width in bits of the value of a cell (a _Bool holds one value bit).
Bits(ty) == IF ty = AtomicBool THEN 1 ELSE 8
IsSigned(ty) == ty = AtomicInt8

RECURSIVE Pow2(_)
Pow2(n) == IF n = 0 THEN 1 ELSE 2 * Pow2(n - 1)

Modulus(ty) == Pow2(Bits(ty))
MinValue(ty) == IF IsSigned(ty) THEN 0 - (Modulus(ty) \div 2) ELSE 0
MaxValue(ty) == IF IsSigned(ty) THEN (Modulus(ty) \div 2) - 1 ELSE Modulus(ty) - 1
Range(ty) == MinValue(ty)..MaxValue(ty)

\* The bit pattern of a value of the type, as a natural below 2^Bits.
ToBits(ty, x) == x % Modulus(ty)
\* The value of the type that a bit pattern represents (two's complement).
FromBits(ty, u) ==
    IF IsSigned(ty) /\ u >= Modulus(ty) \div 2 THEN u - Modulus(ty) ELSE u
\* Conversion of a mathematical integer to the type: reduction modulo 2^Bits.
Wrap(ty, x) == FromBits(ty, x % Modulus(ty))

\* Bitwise combination of two bit patterns, n bits wide, bit by bit.
RECURSIVE BitAnd(_, _, _)
BitAnd(n, a, b) ==
    IF n = 0 THEN 0
    ELSE ((a % 2) * (b % 2)) + 2 * BitAnd(n - 1, a \div 2, b \div 2)

RECURSIVE BitOr(_, _, _)
BitOr(n, a, b) ==
    IF n = 0 THEN 0
    ELSE (IF (a % 2) + (b % 2) > 0 THEN 1 ELSE 0) + 2 * BitOr(n - 1, a \div 2, b \div 2)

RECURSIVE BitXor(_, _, _)
BitXor(n, a, b) ==
    IF n = 0 THEN 0
    ELSE (((a % 2) + (b % 2)) % 2) + 2 * BitXor(n - 1, a \div 2, b \div 2)


(***************************************************************************)
(* The C11 primitives the wrappers call.  Each takes the cell's current    *)
(* value and yields the set of outcomes the step can have: the cell's new  *)
(* value, the value returned, and the ordering(s) the step was performed   *)
(* with.  Only the weak compare-exchange has more than one outcome.        *)
(***************************************************************************)
atomic_compare_exchange_strong_explicit(obj, expected, desired, succ, fail) ==
    IF obj = expected
    THEN { [cell |-> desired, expected |-> expected, ok |-> TRUE,
            order |-> succ, failOrder |-> fail] }
    ELSE { [cell |-> obj, expected |-> obj, ok |-> FALSE,
            order |-> succ, failOrder |-> fail] }

\* The weak form may also fail although the values compare equal; the cell
\* is then left alone and expected receives the (equal) value read.
atomic_compare_exchange_weak_explicit(obj, expected, desired, succ, fail) ==
    IF obj = expected
    THEN { [cell |-> desired, expected |-> expected, ok |-> TRUE,
            order |-> succ, failOrder |-> fail],
           [cell |-> obj, expected |-> obj, ok |-> FALSE,
            order |-> succ, failOrder |-> fail] }
    ELSE { [cell |-> obj, expected |-> obj, ok |-> FALSE,
            order |-> succ, failOrder |-> fail] }

atomic_exchange_explicit(obj, value, order) ==
    [cell |-> value, ret |-> obj, order |-> order]

atomic_load_explicit(obj, order) ==
    [cell |-> obj, ret |-> obj, order |-> order]

\* The store yields no value: ret is 0, as for every call that returns nothing.
atomic_store_explicit(obj, value, order) ==
    [cell |-> value, ret |-> 0, order |-> order]

atomic_fetch_and_explicit(ty, obj, value, order) ==
    [cell |-> FromBits(ty, BitAnd(Bits(ty), ToBits(ty, obj), ToBits(ty, value))),
     ret |-> obj, order |-> order]

atomic_fetch_or_explicit(ty, obj, value, order) ==
    [cell |-> FromBits(ty, BitOr(Bits(ty), ToBits(ty, obj), ToBits(ty, value))),
     ret |-> obj, order |-> order]

atomic_fetch_xor_explicit(ty, obj, value, order) ==
    [cell |-> FromBits(ty, BitXor(Bits(ty), ToBits(ty, obj), ToBits(ty, value))),
     ret |-> obj, order |-> order]

\* Atomic arithmetic wraps silently in two's complement, signed types too.
atomic_fetch_add_explicit(ty, obj, value, order) ==
    [cell |-> Wrap(ty, obj + value), ret |-> obj, order |-> order]

atomic_fetch_sub_explicit(ty, obj, value, order) ==
    [cell |-> Wrap(ty, obj - value), ret |-> obj, order |-> order]

(***************************************************************************)
(* The wrappers of _CATOMIC_VAR and _CATOMIC_INTEGER.  cur is the value of *)
(* *ptr when the step takes effect.  A compare-exchange outcome also says  *)
(* whether the assertion failed; nothing is read or written in that case.  *)
(***************************************************************************)
AssertFailed(cur, expected, succ, fail) ==
    [asserted |-> TRUE, cell |-> cur, expected |-> expected, ok |-> FALSE,
     order |-> succ, failOrder |-> fail]

Passed(o) ==
    [asserted |-> FALSE, cell |-> o.cell, expected |-> o.expected, ok |-> o.ok,
     order |-> o.order, failOrder |-> o.failOrder]

\* Mutant: the strict comparison in the assertion.
OrderAssertionStrict(succ, fail) == fail < succ

\* assert(((enum AtomicMemoryOrder)fail) <= succ)
OrderAssertion(succ, fail) == fail <= succ

\* Mutant: the strong wrapper calling the weak primitive.
CompareExchangeStrongCallsWeak(cur, expected, desired, succ, fail) ==
    IF ~(fail <= succ)
    THEN { AssertFailed(cur, expected, succ, fail) }
    ELSE { Passed(o) : o \in
             atomic_compare_exchange_weak_explicit(cur, expected, desired, succ, fail) }

\* Mutant: the strong wrapper passing expected and desired in each other's place.
CompareExchangeStrongArgsSwapped(cur, expected, desired, succ, fail) ==
    IF ~(fail <= succ)
    THEN { AssertFailed(cur, expected, succ, fail) }
    ELSE { Passed(o) : o \in
             atomic_compare_exchange_strong_explicit(cur, desired, expected, succ, fail) }

CompareExchangeStrong(cur, expected, desired, succ, fail) ==
    IF ~OrderAssertion(succ, fail)
    THEN { AssertFailed(cur, expected, succ, fail) }
    ELSE { Passed(o) : o \in
             atomic_compare_exchange_strong_explicit(cur, expected, desired, succ, fail) }

\* Mutant: the weak wrapper passing expected and desired in each other's place.
CompareExchangeWeakArgsSwapped(cur, expected, desired, succ, fail) ==
    IF ~(fail <= succ)
    THEN { AssertFailed(cur, expected, succ, fail) }
    ELSE { Passed(o) : o \in
             atomic_compare_exchange_weak_explicit(cur, desired, expected, succ, fail) }

\* Mutant: the weak wrapper passing succ and fail in each other's place.
CompareExchangeWeakOrdersSwapped(cur, expected, desired, succ, fail) ==
    IF ~(fail <= succ)
    THEN { AssertFailed(cur, expected, succ, fail) }
    ELSE { Passed(o) : o \in
             atomic_compare_exchange_weak_explicit(cur, expected, desired, fail, succ) }

\* Mutant: the weak wrapper never succeeding.
CompareExchangeWeakAlwaysFails(cur, expected, desired, succ, fail) ==
    IF ~(fail <= succ)
    THEN { AssertFailed(cur, expected, succ, fail) }
    ELSE { [asserted |-> FALSE, cell |-> cur, expected |-> cur, ok |-> FALSE,
            order |-> succ, failOrder |-> fail] }

CompareExchangeWeak(cur, expected, desired, succ, fail) ==
    IF ~OrderAssertion(succ, fail)
    THEN { AssertFailed(cur, expected, succ, fail) }
    ELSE { Passed(o) : o \in
             atomic_compare_exchange_weak_explicit(cur, expected, desired, succ, fail) }

\* Mutant: Exchange returning the value stored instead of the previous one.
ExchangeReturnsStored(cur, value, order) ==
    [cell |-> value, ret |-> value, order |-> order]

Exchange(cur, value, order) == atomic_exchange_explicit(cur, value, order)

Load(cur, order) == atomic_load_explicit(cur, order)

Store(cur, value, order) == atomic_store_explicit(cur, value, order)

FetchAnd(ty, cur, value, order) == atomic_fetch_and_explicit(ty, cur, value, order)

FetchOr(ty, cur, value, order) == atomic_fetch_or_explicit(ty, cur, value, order)

\* Mutant: FetchXor calling the OR primitive.
FetchXorCallsOr(ty, cur, value, order) == atomic_fetch_or_explicit(ty, cur, value, order)

FetchXor(ty, cur, value, order) == atomic_fetch_xor_explicit(ty, cur, value, order)

\* Mutant: FetchAdd calling the subtraction primitive.
FetchAddCallsSub(ty, cur, value, order) == atomic_fetch_sub_explicit(ty, cur, value, order)

\* Mutant: FetchAdd only reading the cell.
FetchAddCallsLoad(ty, cur, value, order) == atomic_load_explicit(cur, order)

FetchAdd(ty, cur, value, order) == atomic_fetch_add_explicit(ty, cur, value, order)

\* Mutant: FetchSub calling the addition primitive.
FetchSubCallsAdd(ty, cur, value, order) == atomic_fetch_add_explicit(ty, cur, value, order)

FetchSub(ty, cur, value, order) == atomic_fetch_sub_explicit(ty, cur, value, order)

\* Mutant: Initialize ignoring its value argument.
InitializeZero(value) == [cell |-> 0]

\* atomic_init: the cell holds the value; no ordering, no return value.
Initialize(value) == [cell |-> value]

(***************************************************************************)
(* Fences and spin hints.  None takes a pointer to a cell.  An outcome     *)
(* says which ordering the fence primitive was given and whether the call  *)
(* returns to its caller.                                                  *)
(***************************************************************************)
atomic_thread_fence(order) == [ret |-> 0, order |-> order, returns |-> TRUE]

atomic_signal_fence(order) == [ret |-> 0, order |-> order, returns |-> TRUE]

\* Mutant: the thread fence always issued with the strongest ordering.
CAtomicThreadFenceSeqcst(order) == atomic_thread_fence(AtomicMemoryOrderSeqcst)

CAtomicThreadFence(order) == atomic_thread_fence(order)

CAtomicSignalFence(order) == atomic_signal_fence(order)

\* __asm__("pause"), __asm__("yield") or __asm__(""): one instruction.
CAtomicHardwarePause == [ret |-> 0, order |-> 0, returns |-> TRUE]

\* Mutant: a yield that waits and never comes back.
CAtomicPreemptionYieldBlocks(timeout) == [ret |-> 0, order |-> 0, returns |-> FALSE]

\* thread_switch(MACH_PORT_NULL, SWITCH_OPTION_DEPRESS, timeout) where
\* <mach/thread_switch.h> exists, sched_yield() elsewhere: both give up the
\* processor and return; the timeout is ignored by the second.
CAtomicPreemptionYield(timeout) == [ret |-> 0, order |-> 0, returns |-> TRUE]

\* The timeouts callers pass to CAtomicPreemptionYield.
MaxTimeout == 2
Timeouts == 0..MaxTimeout

(***************************************************************************)
(* State.  One cell of one of the scalar types, owned by the caller, and   *)
(* what the callers observe of the calls they make.                        *)
(***************************************************************************)
VARIABLES
    ctype,      \* the scalar type the cell was declared with
    cell,       \* the value the cell holds
    written,    \* the most recent write to the cell: [op, value]
    pc,         \* "ready", "returned" (a call has returned), "aborting" (a
                \* thread's assertion has failed, the process has not yet
                \* ended) or "aborted" (the process has ended)
    last,       \* the call that has just returned: its inputs and outcome
    tpc,        \* per thread of a scenario: where the thread is in its program
    texp,       \* per thread: its local `expected` variable (in/out argument)
    tdes,       \* per thread: the value it passes (`desired`, `value`)
    tok,        \* per thread: what its last compare-exchange returned
    rets,       \* a scenario's log, in the order the steps took effect: the
                \* values returned, or the threads whose writes succeeded
    ord,        \* what a scenario fixes at its start: the orderings its
                \* threads pass, [succ, fail], and its other parameters
    tseen       \* per thread: the length of the log when it last read the cell

tvars == << tpc, texp, tdes, tok, rets, ord, tseen >>
vars == << ctype, cell, written, pc, last, tpc, texp, tdes, tok, rets, ord, tseen >>

\* The values callers pass, per type (the cell itself reaches its whole range).
Values(ty) ==
    CASE ty = AtomicBool -> { 0, 1 }
      [] ty = AtomicUInt8 -> { 1, 6, 10, 250 }
      [] ty = AtomicInt8 -> { -128, -1, 6, 127 }

NoCall ==
    [op |-> "none", arg |-> 0, order |-> 0, failOrder |-> 0, old |-> 0,
     expIn |-> 0, expOut |-> 0, ok |-> FALSE, ret |-> 0, asserted |-> FALSE,
     prev |-> 0, ordIn |-> 0, failIn |-> 0]

\* The record of a returned call of a wrapper with one ordering argument:
\* ordIn is the ordering the caller passed, order the one the primitive got.
Returned(name, value, ordIn, o) ==
    [op |-> name, arg |-> value, order |-> o.order, failOrder |-> 0, old |-> cell,
     expIn |-> 0, expOut |-> 0, ok |-> FALSE, ret |-> o.ret, asserted |-> FALSE,
     prev |-> written.value, ordIn |-> ordIn, failIn |-> 0]

\* The record of a compare-exchange call: returned, or stopped by the assertion.
ReturnedCAS(name, expected, desired, succ, fail, o) ==
    [op |-> name, arg |-> desired, order |-> o.order, failOrder |-> o.failOrder,
     old |-> cell, expIn |-> expected, expOut |-> o.expected, ok |-> o.ok,
     ret |-> 0, asserted |-> o.asserted, prev |-> written.value,
     ordIn |-> succ, failIn |-> fail]

\* The caller has initialized the cell, once, before any other operation.
Init ==
    /\ ctype \in ScalarTypes
    /\ \E v \in Values(ctype) \cup {0} :
          /\ cell = Initialize(v).cell
          /\ written = [op |-> "Initialize", value |-> v]
    /\ pc = "ready"
    /\ last = NoCall
    /\ tpc = << >> /\ texp = << >> /\ tdes = << >> /\ tok = << >>
    /\ rets = << >> /\ tseen = << >>
    /\ ord = [succ |-> AtomicMemoryOrderSeqcst, fail |-> AtomicLoadMemoryOrderSeqcst]

\* A compare-exchange step: the assertion, then the primitive.
CASStep(name, expected, desired, succ, fail, o) ==
    /\ last' = ReturnedCAS(name, expected, desired, succ, fail, o)
    /\ cell' = o.cell
    /\ written' = IF o.ok THEN [op |-> name, value |-> desired] ELSE written
    /\ pc' = IF o.asserted THEN "aborted" ELSE "returned"
    /\ UNCHANGED << ctype, tvars >>

CallCompareExchangeStrong ==
    /\ pc = "ready"
    /\ \E expected \in Values(ctype) \cup {cell}, desired \in Values(ctype),
          succ \in AtomicMemoryOrder, fail \in AtomicLoadMemoryOrder :
          \E o \in CompareExchangeStrong(cell, expected, desired, succ, fail) :
             CASStep("CompareExchangeStrong", expected, desired, succ, fail, o)

CallCompareExchangeWeak ==
    /\ pc = "ready"
    /\ \E expected \in Values(ctype) \cup {cell}, desired \in Values(ctype),
          succ \in AtomicMemoryOrder, fail \in AtomicLoadMemoryOrder :
          \E o \in CompareExchangeWeak(cell, expected, desired, succ, fail) :
             CASStep("CompareExchangeWeak", expected, desired, succ, fail, o)

\* A step of a wrapper that writes the cell unconditionally.
WriteStep(name, value, order, o) ==
    /\ last' = Returned(name, value, order, o)
    /\ cell' = o.cell
    /\ written' = [op |-> name, value |-> o.cell]
    /\ pc' = "returned"
    /\ UNCHANGED << ctype, tvars >>

CallExchange ==
    /\ pc = "ready"
    /\ \E value \in Values(ctype), order \in AtomicMemoryOrder :
          WriteStep("Exchange", value, order, Exchange(cell, value, order))

CallStore ==
    /\ pc = "ready"
    /\ \E value \in Values(ctype), order \in AtomicStoreMemoryOrder :
          WriteStep("Store", value, order, Store(cell, value, order))

CallLoad ==
    /\ pc = "ready"
    /\ \E order \in AtomicLoadMemoryOrder :
          LET o == Load(cell, order) IN
          /\ last' = Returned("Load", 0, order, o)
          /\ cell' = o.cell
          /\ pc' = "returned"
          /\ UNCHANGED << ctype, written, tvars >>

CallFetchAnd ==
    /\ pc = "ready"
    /\ \E value \in Values(ctype), order \in AtomicMemoryOrder :
          WriteStep("FetchAnd", value, order, FetchAnd(ctype, cell, value, order))

CallFetchOr ==
    /\ pc = "ready"
    /\ \E value \in Values(ctype), order \in AtomicMemoryOrder :
          WriteStep("FetchOr", value, order, FetchOr(ctype, cell, value, order))

CallFetchXor ==
    /\ pc = "ready"
    /\ \E value \in Values(ctype), order \in AtomicMemoryOrder :
          WriteStep("FetchXor", value, order, FetchXor(ctype, cell, value, order))

\* FetchAdd and FetchSub exist for the integer types only (_CATOMIC_INTEGER).
CallFetchAdd ==
    /\ pc = "ready"
    /\ ctype \in IntegerTypes
    /\ \E value \in Values(ctype), order \in AtomicMemoryOrder :
          WriteStep("FetchAdd", value, order, FetchAdd(ctype, cell, value, order))

CallFetchSub ==
    /\ pc = "ready"
    /\ ctype \in IntegerTypes
    /\ \E value \in Values(ctype), order \in AtomicMemoryOrder :
          WriteStep("FetchSub", value, order, FetchSub(ctype, cell, value, order))

\* AtomicMemoryOrderStrongestLoadOrder applied to a raw enum value.
CallStrongestLoadOrder ==
    /\ pc = "ready"
    /\ \E self \in RawOrder :
          last' = [NoCall EXCEPT !.op = "StrongestLoadOrder", !.order = self,
                                 !.ret = AtomicMemoryOrderStrongestLoadOrder(self)]
    /\ pc' = "returned"
    /\ UNCHANGED << ctype, cell, written, tvars >>

\* A step of a fence or spin hint: no cell is named, so none is touched.  A
\* call that did not return would leave its thread "blocked".
HintStep(name, arg, order, o) ==
    /\ last' = Returned(name, arg, order, o)
    /\ pc' = IF o.returns THEN "returned" ELSE "blocked"
    /\ UNCHANGED << ctype, cell, written, tvars >>

CallThreadFence ==
    /\ pc = "ready"
    /\ \E order \in AtomicMemoryOrder :
          HintStep("ThreadFence", 0, order, CAtomicThreadFence(order))

CallSignalFence ==
    /\ pc = "ready"
    /\ \E order \in AtomicMemoryOrder :
          HintStep("SignalFence", 0, order, CAtomicSignalFence(order))

CallHardwarePause ==
    /\ pc = "ready"
    /\ HintStep("HardwarePause", 0, 0, CAtomicHardwarePause)

CallPreemptionYield ==
    /\ pc = "ready"
    /\ \E timeout \in Timeouts :
          HintStep("PreemptionYield", timeout, 0, CAtomicPreemptionYield(timeout))

\* The caller has used the result and is ready to make the next call.
Resume ==
    /\ pc = "returned"
    /\ pc' = "ready"
    /\ last' = NoCall
    /\ UNCHANGED << ctype, cell, written, tvars >>

Next ==
    \/ CallCompareExchangeStrong
    \/ CallCompareExchangeWeak
    \/ CallExchange
    \/ CallStore
    \/ CallLoad
    \/ CallFetchAnd
    \/ CallFetchOr
    \/ CallFetchXor
    \/ CallFetchAdd
    \/ CallFetchSub
    \/ CallStrongestLoadOrder
    \/ CallThreadFence
    \/ CallSignalFence
    \/ CallHardwarePause
    \/ CallPreemptionYield
    \/ Resume

Spec == Init /\ [][Next]_vars

(***************************************************************************)
(* Properties of single calls, checked under Spec.  `last` holds the call  *)
(* that has just returned: old is the cell's value when the step took      *)
(* effect, cell its value after the step.                                  *)
(***************************************************************************)
IsCAS(c) == c.op \in { "CompareExchangeStrong", "CompareExchangeWeak" }

\* C1: a CompareExchangeStrong call that passed the ordering assertion and
\* found the cell equal to expected returns true, leaves the cell equal to
\* desired and leaves expected unchanged; it returns false only if the cell
\* differed from expected when the step took effect.
C1_StrongNeverFailsSpuriously ==
    (last.op = "CompareExchangeStrong" /\ ~last.asserted) =>
        /\ (last.old = last.expIn) =>
              (last.ok /\ cell = last.arg /\ last.expOut = last.expIn)
        /\ (~last.ok) => (last.old # last.expIn)

C1_Witness ==
    /\ pc = "returned"
    /\ last.op = "CompareExchangeStrong"
    /\ last.old = last.expIn
    /\ last.arg # last.old
    /\ last.ok
    /\ cell = last.arg

\* C2: a compare-exchange call (strong or weak) that passed the ordering
\* assertion and whose expected differs from the cell's value returns false,
\* leaves the cell unmodified and writes the cell's value into expected.
C2_MismatchFailsAndWritesBack ==
    (IsCAS(last) /\ ~last.asserted /\ last.old # last.expIn) =>
        /\ ~last.ok
        /\ cell = last.old
        /\ written.value = last.prev
        /\ last.expOut = last.old

C2_Witness ==
    /\ pc = "returned"
    /\ last.op = "CompareExchangeWeak"
    /\ last.old # last.expIn
    /\ last.arg # last.old
    /\ last.expOut = last.old
    /\ ~last.ok

\* C5: FetchAdd and FetchSub return the pre-operation value and leave the
\* cell at old + value resp. old - value reduced modulo 2^w into the type's
\* range; an unsigned 8-bit cell at 250 after FetchAdd(10) returns 250 and
\* holds 4.
C5_FetchAddSubWrapAround ==
    /\ (last.op = "FetchAdd") =>
          /\ last.ret = last.old
          /\ cell \in Range(ctype)
          /\ (cell - (last.old + last.arg)) % (2 ^ Bits(ctype)) = 0
    /\ (last.op = "FetchSub") =>
          /\ last.ret = last.old
          /\ cell \in Range(ctype)
          /\ (cell - (last.old - last.arg)) % (2 ^ Bits(ctype)) = 0
    /\ (last.op = "FetchAdd" /\ ctype = AtomicUInt8 /\ last.old = 250 /\ last.arg = 10) =>
          (last.ret = 250 /\ cell = 4)

C5_Witness ==
    /\ last.op = "FetchAdd"
    /\ ctype = AtomicUInt8
    /\ last.old = 250
    /\ last.arg = 10
    /\ cell = 4

\* The strength order of the orderings, a at least as strong as b:
\* Relaxed < Consume < Acquire < Acqrel < Seqcst and Consume < Release < Acqrel,
\* with Acquire and Release not ordered relative to each other.
Dominates(a, b) ==
    \/ a = b
    \/ b = AtomicMemoryOrderRelaxed
    \/ a = AtomicMemoryOrderSeqcst
    \/ a = AtomicMemoryOrderAcquire /\ b = AtomicMemoryOrderConsume
    \/ a = AtomicMemoryOrderRelease /\ b = AtomicMemoryOrderConsume
    \/ a = AtomicMemoryOrderAcqrel /\ b \in { AtomicMemoryOrderConsume,
                                              AtomicMemoryOrderAcquire,
                                              AtomicMemoryOrderRelease }

StrictlyStronger(a, b) == a # b /\ Dominates(a, b)

\* C7: a compare-exchange call whose failure ordering is strictly stronger
\* than its success ordering is stopped by the assertion before the cell or
\* expected is touched; a call whose failure ordering is the success
\* ordering's load equivalent, or weaker, passes the assertion.
C7_AssertionOnStrongerFailOrder ==
    IsCAS(last) =>
        /\ StrictlyStronger(last.failOrder, last.order) =>
              /\ last.asserted
              /\ pc = "aborted"
              /\ cell = last.old
              /\ written.value = last.prev
              /\ last.expOut = last.expIn
        /\ Dominates(AtomicMemoryOrderStrongestLoadOrder(last.order), last.failOrder) =>
              (~last.asserted /\ pc = "returned")

C7_Witness ==
    /\ last.op = "CompareExchangeStrong"
    /\ last.order = AtomicMemoryOrderRelaxed
    /\ last.failOrder = AtomicLoadMemoryOrderAcquire
    /\ last.old = last.expIn
    /\ last.arg # last.old
    /\ last.asserted
    /\ cell = last.old

\* C8: AtomicMemoryOrderStrongestLoadOrder returns, for each of the six
\* memory orders, a member of the load orders, and exactly the table's entry.
C8_StrongestLoadOrderTable ==
    (last.op = "StrongestLoadOrder" /\ last.order \in AtomicMemoryOrder) =>
        /\ pc = "returned"
        /\ last.ret \in AtomicLoadMemoryOrder
        /\ last.ret =
             [o \in AtomicMemoryOrder |->
                CASE o = AtomicMemoryOrderRelaxed -> AtomicLoadMemoryOrderRelaxed
                  [] o = AtomicMemoryOrderConsume -> AtomicLoadMemoryOrderConsume
                  [] o = AtomicMemoryOrderAcquire -> AtomicLoadMemoryOrderAcquire
                  [] o = AtomicMemoryOrderRelease -> AtomicLoadMemoryOrderRelaxed
                  [] o = AtomicMemoryOrderAcqrel -> AtomicLoadMemoryOrderAcquire
                  [] o = AtomicMemoryOrderSeqcst -> AtomicLoadMemoryOrderSeqcst][last.order]

C8_Witness ==
    /\ last.op = "StrongestLoadOrder"
    /\ last.order = AtomicMemoryOrderRelease
    /\ last.ret = AtomicLoadMemoryOrderRelaxed

\* C9: Exchange returns the value most recently written to the cell and
\* leaves the cell holding the value passed; a Load with no write after an
\* Exchange returns the value that Exchange stored.
C9_ExchangeReturnsLastWritten ==
    /\ (last.op = "Exchange") =>
          (last.ret = last.prev /\ cell = last.arg)
    /\ (last.op = "Load" /\ written.op = "Exchange") =>
          (last.ret = written.value /\ cell = written.value)

C9_Witness ==
    /\ last.op = "Load"
    /\ written.op = "Exchange"
    /\ last.ret = 250
    /\ last.order = AtomicLoadMemoryOrderRelaxed

\* Bit i of the bit pattern (w bits wide) of x.
BitAt(w, x, i) == ((x % (2 ^ w)) \div (2 ^ i)) % 2

\* C10: FetchAnd, FetchOr and FetchXor return the pre-operation value and
\* leave the cell at old AND value, old OR value resp. old XOR value, bit for
\* bit over the type's width; a cell at 0b1010 after FetchXor(0b0110) returns
\* 0b1010 and holds 0b1100.
C10_FetchBitwise ==
    LET w == Bits(ctype)
        a(i) == BitAt(w, last.old, i)
        b(i) == BitAt(w, last.arg, i)
        r(i) == BitAt(w, cell, i)
    IN  /\ (last.op \in { "FetchAnd", "FetchOr", "FetchXor" }) =>
              (last.ret = last.old /\ cell \in Range(ctype))
        /\ (last.op = "FetchAnd") =>
              \A i \in 0..(w - 1) : r(i) = 1 <=> (a(i) = 1 /\ b(i) = 1)
        /\ (last.op = "FetchOr") =>
              \A i \in 0..(w - 1) : r(i) = 1 <=> (a(i) = 1 \/ b(i) = 1)
        /\ (last.op = "FetchXor") =>
              \A i \in 0..(w - 1) : r(i) = 1 <=> (a(i) # b(i))
        /\ (last.op = "FetchXor" /\ ctype = AtomicUInt8 /\ last.old = 10 /\ last.arg = 6) =>
              (last.ret = 10 /\ cell = 12)

C10_Witness ==
    /\ last.op = "FetchXor"
    /\ ctype = AtomicUInt8
    /\ last.old = 10
    /\ last.arg = 6
    /\ cell = 12

\* C11: a Load issued after Initialize(cell, v1) and before any other write
\* returns v1, for every value and every load ordering; and a Load never
\* changes the cell, so every Load returns the value of the most recent write
\* however many Loads come between.
C11_LoadAfterInitialize ==
    (last.op = "Load") =>
        /\ cell = last.old
        /\ written.value = last.prev
        /\ last.ret = written.value
        /\ (written.op = "Initialize") => (last.ret = cell)

C11_Witness ==
    /\ last.op = "Load"
    /\ written.op = "Initialize"
    /\ written.value = 250
    /\ last.ret = 250
    /\ last.ordIn = AtomicLoadMemoryOrderAcquire

\* The wrappers that take one ordering argument.
OneOrderOps ==
    { "Load", "Store", "Exchange", "FetchAnd", "FetchOr", "FetchXor",
      "FetchAdd", "FetchSub", "ThreadFence", "SignalFence" }

\* C12: every operation performs its step with exactly the ordering it was
\* given: the wrappers with one ordering pass it unchanged to the primitive,
\* and both compare-exchange forms pass succ as the success ordering and fail
\* as the failure ordering.
C12_OrderingPassedUnchanged ==
    /\ (last.op \in OneOrderOps) => (last.order = last.ordIn)
    /\ (IsCAS(last) /\ ~last.asserted) =>
          (last.order = last.ordIn /\ last.failOrder = last.failIn)

C12_Witness ==
    /\ last.op = "CompareExchangeWeak"
    /\ ~last.asserted
    /\ last.ordIn = AtomicMemoryOrderAcqrel
    /\ last.failIn = AtomicLoadMemoryOrderAcquire
    /\ last.order = AtomicMemoryOrderAcqrel
    /\ last.failOrder = AtomicLoadMemoryOrderAcquire

HintOps == { "ThreadFence", "SignalFence", "HardwarePause", "PreemptionYield" }

\* C13: ThreadFence, SignalFence, HardwarePause and PreemptionYield leave the
\* cell as it was and return to the caller; no call leaves its thread blocked.
C13_HintsReturnAndTouchNothing ==
    /\ pc # "blocked"
    /\ (last.op \in HintOps) =>
          /\ pc = "returned"
          /\ cell = last.old
          /\ written.value = last.prev
          /\ cell = written.value

C13_Witness ==
    /\ last.op = "PreemptionYield"
    /\ last.arg = 1
    /\ pc = "returned"
    /\ written.op = "FetchAdd"
    /\ cell = last.old

\* C14: the assertion accepts a (success, fail) pair only when the success
\* ordering dominates the failure ordering in the strength order in which
\* Acquire and Release are not ordered; success = Release with fail = Acquire
\* is stopped by the assertion.
C14_AssertionFollowsStrengthOrder ==
    IsCAS(last) =>
        /\ (~last.asserted) => Dominates(last.ordIn, last.failIn)
        /\ (last.ordIn = AtomicMemoryOrderRelease /\ last.failIn = AtomicLoadMemoryOrderAcquire)
              => last.asserted

\* C15: a compare-exchange called with success ordering o and failure
\* ordering StrongestLoadOrder(o) passes the assertion, for each of the six
\* orderings, and StrongestLoadOrder(o) is never stronger than o.
C15_StrongestLoadOrderPassesAssertion ==
    /\ (IsCAS(last) /\ last.failIn = AtomicMemoryOrderStrongestLoadOrder(last.ordIn)) =>
          (~last.asserted /\ pc = "returned" /\ Dominates(last.ordIn, last.failIn))
    /\ (last.op = "StrongestLoadOrder" /\ last.order \in AtomicMemoryOrder) =>
          (Dominates(last.order, last.ret) /\ OrderAssertion(last.order, last.ret))

C15_Witness ==
    /\ last.op = "CompareExchangeStrong"
    /\ last.ordIn = AtomicMemoryOrderRelease
    /\ last.failIn = AtomicLoadMemoryOrderRelaxed
    /\ last.old = last.expIn
    /\ last.arg # last.old
    /\ last.ok

\* C19: AtomicMemoryOrderStrongestLoadOrder applied to a value that is none
\* of the six memory orders returns Seqcst.
C19_UnrecognizedOrderGivesSeqcst ==
    (last.op = "StrongestLoadOrder" /\ last.order \notin AtomicMemoryOrder) =>
        (pc = "returned" /\ last.ret = AtomicLoadMemoryOrderSeqcst)

C19_Witness ==
    /\ last.op = "StrongestLoadOrder"
    /\ last.order = MaxRawOrder
    /\ last.order \notin AtomicMemoryOrder
    /\ last.ret = AtomicLoadMemoryOrderSeqcst

(***************************************************************************)
(* Scenario: StressThreads threads each perform StressOps calls of         *)
(* FetchAdd(cell, 1, order) on a zero-initialized integer cell, all with   *)
(* the same ordering.                                                      *)
(***************************************************************************)
StressThreads == 3
StressOps == 2

InitStress ==
    /\ ctype \in IntegerTypes
    /\ cell = Initialize(0).cell
    /\ written = [op |-> "Initialize", value |-> 0]
    /\ pc = "ready"
    /\ last = NoCall
    /\ tpc = [t \in 1..StressThreads |-> 0]
    /\ texp = << >> /\ tdes = << >> /\ tok = << >> /\ tseen = << >>
    /\ rets = << >>
    /\ \E order \in AtomicMemoryOrder :
          ord = [succ |-> order, fail |-> AtomicLoadMemoryOrderRelaxed]

\* Thread t makes its next FetchAdd call; tpc[t] counts the calls it has made.
StressFetchAdd(t) ==
    /\ tpc[t] < StressOps
    /\ LET o == FetchAdd(ctype, cell, 1, ord.succ) IN
          /\ cell' = o.cell
          /\ written' = [op |-> "FetchAdd", value |-> o.cell]
          /\ rets' = Append(rets, o.ret)
    /\ tpc' = [tpc EXCEPT ![t] = @ + 1]
    /\ UNCHANGED << ctype, pc, last, texp, tdes, tok, ord, tseen >>

NextStress == \E t \in 1..StressThreads : StressFetchAdd(t)

SpecStress == InitStress /\ [][NextStress]_vars

StressDone == \A t \in 1..StressThreads : tpc[t] = StressOps

\* The number of calls threads 1..n have made.
RECURSIVE CallsMade(_)
CallsMade(n) == IF n = 0 THEN 0 ELSE tpc[n] + CallsMade(n - 1)

\* C3: no lost updates.  At every point the cell equals the number of
\* FetchAdd(1) calls made so far and the values returned so far are
\* 0, 1, ..., each once; so when all threads have finished the cell equals
\* StressThreads * StressOps and the returned values are exactly
\* 0..StressThreads*StressOps-1, each returned once.
C3_NoLostUpdates ==
    /\ Len(rets) = CallsMade(StressThreads)
    /\ cell = Len(rets)
    /\ { rets[i] : i \in 1..Len(rets) } = 0..(Len(rets) - 1)
    /\ \A i, j \in 1..Len(rets) : rets[i] = rets[j] => i = j
    /\ StressDone =>
          /\ cell = StressThreads * StressOps
          /\ { rets[i] : i \in 1..Len(rets) } = 0..(StressThreads * StressOps - 1)

C3_Witness ==
    /\ StressDone
    /\ cell = StressThreads * StressOps
    /\ Len(rets) = StressThreads * StressOps
    /\ ord.succ = AtomicMemoryOrderRelaxed

(***************************************************************************)
(* Scenario: the cell holds v and RaceThreads threads each issue one       *)
(* CompareExchangeStrong with expected = v and a desired value other than  *)
(* v; there are no other writers.  All threads pass the same orderings.    *)
(***************************************************************************)
RaceThreads == 3

OrderPairs == { [succ |-> s, fail |-> f] : s \in AtomicMemoryOrder, f \in AtomicLoadMemoryOrder }

InitRace ==
    /\ ctype \in ScalarTypes
    /\ \E v \in Values(ctype) :
          /\ cell = Initialize(v).cell
          /\ written = [op |-> "Initialize", value |-> v]
          /\ texp = [t \in 1..RaceThreads |-> v]
          /\ tdes \in [1..RaceThreads -> Values(ctype) \ {v}]
    /\ pc = "ready"
    /\ last = NoCall
    /\ tpc = [t \in 1..RaceThreads |-> "start"]
    /\ tok = [t \in 1..RaceThreads |-> FALSE]
    /\ rets = << >> /\ tseen = << >>
    /\ ord \in OrderPairs

\* Thread t's call: the whole wrapper, as one step.  A failed assertion
\* stops thread t, which goes on to abort the process (pc = "aborting");
\* until the process has ended the other threads keep running, and each of
\* them may enter the wrapper and fail its own assertion.
RaceCompareExchange(t) ==
    /\ pc # "aborted"
    /\ tpc[t] = "start"
    /\ \E o \in CompareExchangeStrong(cell, texp[t], tdes[t], ord.succ, ord.fail) :
          /\ cell' = o.cell
          /\ written' = IF o.ok THEN [op |-> "CompareExchangeStrong", value |-> tdes[t]]
                                ELSE written
          /\ texp' = [texp EXCEPT ![t] = o.expected]
          /\ tok' = [tok EXCEPT ![t] = o.ok]
          /\ tpc' = [tpc EXCEPT ![t] = IF o.asserted THEN "aborted" ELSE "done"]
          /\ pc' = IF o.asserted THEN "aborting" ELSE pc
    /\ UNCHANGED << ctype, last, tdes, rets, ord, tseen >>

\* The abort raised by a failed assertion ends the process: no thread takes
\* another step.
RaceProcessEnds ==
    /\ pc = "aborting"
    /\ pc' = "aborted"
    /\ UNCHANGED << ctype, cell, written, last, tvars >>

NextRace ==
    \/ \E t \in 1..RaceThreads : RaceCompareExchange(t)
    \/ RaceProcessEnds

SpecRace == InitRace /\ [][NextRace]_vars

Winners == { t \in 1..RaceThreads : tok[t] }

\* C4: at most one call has returned true at any time, and as soon as one
\* call has returned some call has returned true; once all RaceThreads calls
\* have returned, exactly one returned true, the cell holds that call's
\* desired value, and every other call returned false with its expected set
\* to the value it found in the cell (the winner's desired value).
C4_ExactlyOneSucceeds ==
    /\ Cardinality(Winners) <= 1
    /\ (\E t \in 1..RaceThreads : tpc[t] = "done") => Cardinality(Winners) = 1
    /\ \A w \in Winners :
          /\ cell = tdes[w]
          /\ written.value = tdes[w]
          /\ texp[w] # tdes[w]
          /\ \A t \in 1..RaceThreads :
                (tpc[t] = "done" /\ t # w) => (~tok[t] /\ texp[t] = tdes[w])

C4_Witness ==
    /\ \A t \in 1..RaceThreads : tpc[t] = "done"
    /\ Cardinality(Winners) = 1
    /\ tok[2]
    /\ tdes[1] # tdes[2]
    /\ texp[1] = tdes[2]

(***************************************************************************)
(* Scenario: one thread, no other writer, runs                             *)
(*     while (!CompareExchangeWeak(&cell, &expected, desired, succ, fail)) *)
(*         ;                                                               *)
(* starting from any expected.  The weak form may fail spuriously; the     *)
(* fairness condition of SpecWeakLoop says that the loop keeps running and *)
(* that spurious failure does not recur forever.                           *)
(***************************************************************************)
InitWeakLoop ==
    /\ ctype \in ScalarTypes
    /\ \E v \in Values(ctype) :
          /\ cell = Initialize(v).cell
          /\ written = [op |-> "Initialize", value |-> v]
    /\ texp \in [{1} -> Values(ctype)]
    /\ tdes \in [{1} -> Values(ctype)]
    /\ pc = "ready"
    /\ last = NoCall
    /\ tpc = [t \in {1} |-> "retry"]
    /\ tok = [t \in {1} |-> FALSE]
    /\ rets = << >> /\ tseen = << >>
    /\ ord \in OrderPairs

\* One iteration of the loop: the whole wrapper, as one step.
WeakLoopCompareExchange ==
    /\ tpc[1] = "retry"
    /\ \E o \in CompareExchangeWeak(cell, texp[1], tdes[1], ord.succ, ord.fail) :
          /\ cell' = o.cell
          /\ written' = IF o.ok THEN [op |-> "CompareExchangeWeak", value |-> tdes[1]]
                                ELSE written
          /\ texp' = [texp EXCEPT ![1] = o.expected]
          /\ tok' = [tok EXCEPT ![1] = o.ok]
          /\ tpc' = [tpc EXCEPT ![1] = IF o.asserted THEN "aborted"
                                       ELSE IF o.ok THEN "done" ELSE "retry"]
          /\ pc' = IF o.asserted THEN "aborted" ELSE pc
    /\ UNCHANGED << ctype, last, tdes, rets, ord, tseen >>

\* The iteration in which the compare-exchange does not fail spuriously.
WeakLoopSucceeds == WeakLoopCompareExchange /\ tok'[1]

NextWeakLoop == WeakLoopCompareExchange

SpecWeakLoop ==
    /\ InitWeakLoop
    /\ [][NextWeakLoop]_vars
    /\ WF_vars(WeakLoopCompareExchange)
    /\ WF_vars(WeakLoopSucceeds)

\* C6: CompareExchangeWeak never returns true, and never modifies the cell,
\* when the cell differs from expected; and the retry loop, once expected
\* equals the cell (and the orderings pass the assertion), eventually gets
\* true, and the cell then holds desired.
C6_WeakNeverFalselySucceedsAndLoopEnds ==
    /\ [][ (tpc[1] = "retry" /\ cell # texp[1]) =>
              (~tok'[1] /\ cell' = cell /\ tpc'[1] # "done") ]_vars
    /\ [][ tok'[1] => (cell = texp[1] /\ cell' = tdes[1]) ]_vars
    /\ (tpc[1] = "retry" /\ texp[1] = cell /\ ord.fail <= ord.succ)
          ~> (tpc[1] = "done" /\ tok[1] /\ cell = tdes[1])

C6_Witness ==
    /\ tpc[1] = "done"
    /\ tok[1]
    /\ cell = tdes[1]
    /\ written.op = "CompareExchangeWeak"
    /\ texp[1] # tdes[1]

(***************************************************************************)
(* Scenario: compare-and-retry increment.  IncrThreads threads each run    *)
(*     e = Load(&cell, fail);                                              *)
(*     while (!CompareExchange(&cell, &e, e + 1, succ, fail))              *)
(*         ;                                                               *)
(* all with the strong form or all with the weak form, and with            *)
(* fail = AtomicMemoryOrderStrongestLoadOrder(succ).  rets logs the        *)
(* threads whose compare-exchange succeeded; tseen[t] is the length of     *)
(* that log when t last read the cell (by Load or by a failed call).       *)
(***************************************************************************)
IncrThreads == 2

\* The starting values from which IncrThreads increments stay in the type's range.
IncrInits(ty) == { v \in Values(ty) \cup {0} : v + IncrThreads \in Range(ty) }

InitIncr ==
    /\ ctype \in IntegerTypes
    /\ \E v \in IncrInits(ctype), o \in AtomicMemoryOrder, f \in { "strong", "weak" } :
          /\ cell = Initialize(v).cell
          /\ written = [op |-> "Initialize", value |-> v]
          /\ ord = [succ |-> o, fail |-> AtomicMemoryOrderStrongestLoadOrder(o),
                    form |-> f, init |-> v]
    /\ pc = "ready"
    /\ last = NoCall
    /\ tpc = [t \in 1..IncrThreads |-> "load"]
    /\ texp = [t \in 1..IncrThreads |-> 0]
    /\ tok = [t \in 1..IncrThreads |-> FALSE]
    /\ tseen = [t \in 1..IncrThreads |-> 0]
    /\ tdes = << >>
    /\ rets = << >>

\* e = Load(&cell, fail)
IncrLoad(t) ==
    /\ pc # "aborted"
    /\ tpc[t] = "load"
    /\ LET o == Load(cell, ord.fail) IN
          /\ texp' = [texp EXCEPT ![t] = o.ret]
          /\ cell' = o.cell
    /\ tseen' = [tseen EXCEPT ![t] = Len(rets)]
    /\ tpc' = [tpc EXCEPT ![t] = "cas"]
    /\ UNCHANGED << ctype, written, pc, last, tdes, tok, rets, ord >>

\* The outcomes thread t's next compare-exchange call can have; e + 1 is
\* computed in the cell's type.
IncrOutcomes(t) ==
    IF ord.form = "strong"
    THEN CompareExchangeStrong(cell, texp[t], Wrap(ctype, texp[t] + 1), ord.succ, ord.fail)
    ELSE CompareExchangeWeak(cell, texp[t], Wrap(ctype, texp[t] + 1), ord.succ, ord.fail)

\* One iteration of thread t's loop: the whole wrapper, as one step.  The
\* orderings of this scenario always pass the assertion, so no thread of it
\* ever aborts.
IncrCompareExchange(t) ==
    /\ pc # "aborted"
    /\ tpc[t] = "cas"
    /\ \E o \in IncrOutcomes(t) :
          /\ cell' = o.cell
          /\ written' = IF o.ok THEN [op |-> "CompareExchange", value |-> o.cell]
                                ELSE written
          /\ texp' = [texp EXCEPT ![t] = o.expected]
          /\ tok' = [tok EXCEPT ![t] = o.ok]
          /\ rets' = IF o.ok THEN Append(rets, t) ELSE rets
          /\ tseen' = [tseen EXCEPT ![t] = IF o.ok \/ o.asserted THEN @ ELSE Len(rets)]
          /\ tpc' = [tpc EXCEPT ![t] = IF o.asserted THEN "aborted"
                                       ELSE IF o.ok THEN "done" ELSE "cas"]
          /\ pc' = IF o.asserted THEN "aborting" ELSE pc
    /\ UNCHANGED << ctype, last, tdes, ord >>

\* The iteration in which thread t's compare-exchange succeeds.
IncrSucceeds(t) == IncrCompareExchange(t) /\ tok'[t]

NextIncr == \E t \in 1..IncrThreads : IncrLoad(t) \/ IncrCompareExchange(t)

\* Every thread keeps running, and a compare-exchange that can succeed does
\* not fail forever (for the weak form: spurious failure does not recur forever).
SpecIncr ==
    /\ InitIncr
    /\ [][NextIncr]_vars
    /\ \A t \in 1..IncrThreads :
          /\ WF_vars(IncrLoad(t))
          /\ WF_vars(IncrCompareExchange(t))
          /\ WF_vars(IncrSucceeds(t))

IncrDone == \A t \in 1..IncrThreads : tpc[t] = "done"

\* Another thread's compare-exchange succeeded since t last read the cell.
WrittenSinceRead(t) == \E i \in (tseen[t] + 1)..Len(rets) : rets[i] # t

\* A call by t, made now, can fail only if another thread wrote since t's last read.
FailurePrecededByWrite(t) ==
    (tpc[t] = "cas") =>
        \A o \in IncrOutcomes(t) : (~o.asserted /\ ~o.ok) => WrittenSinceRead(t)

\* C16 as stated: with either form, every failed call is preceded, since the
\* thread's last read, by another thread's successful write, and when all
\* threads have left their loops the cell holds the initial value plus
\* IncrThreads.
C16_EveryFailureFollowsAWrite ==
    /\ \A t \in 1..IncrThreads : FailurePrecededByWrite(t)
    /\ IncrDone => (cell = ord.init + IncrThreads)

\* C16, amended: with the strong form every failed call is preceded, since
\* the thread's last read, by another thread's successful write; with the
\* weak form a failed call is preceded by such a write or is spurious (the
\* cell equals expected).  With either form every thread eventually leaves
\* its loop, and the cell then holds the initial value plus IncrThreads.
C16_RetryIncrementLosslessAndEnds ==
    /\ [](\A t \in 1..IncrThreads :
            \/ FailurePrecededByWrite(t)
            \/ ord.form = "weak" /\ cell = texp[t])
    /\ [](Len(rets) <= IncrThreads /\ cell = ord.init + Len(rets))
    /\ [](IncrDone => (cell = ord.init + IncrThreads))
    /\ <>IncrDone

C16_Witness ==
    /\ IncrDone
    /\ ord.form = "strong"
    /\ cell = ord.init + IncrThreads
    /\ rets[1] = 2
    /\ texp[1] = ord.init + 1
    /\ tseen[1] = 1

(***************************************************************************)
(* Scenario: the cell is initialized to v0 and SwapThreads threads each    *)
(* perform one Exchange, with pairwise distinct values other than v0, all  *)
(* with the same ordering.  rets logs the values returned.                 *)
(***************************************************************************)
SwapThreads == 3

InitSwap ==
    /\ ctype \in IntegerTypes
    /\ \E v0 \in Values(ctype) \cup {0}, o \in AtomicMemoryOrder :
          /\ cell = Initialize(v0).cell
          /\ written = [op |-> "Initialize", value |-> v0]
          /\ ord = [succ |-> o, fail |-> AtomicLoadMemoryOrderRelaxed, init |-> v0]
          /\ tdes \in { f \in [1..SwapThreads -> Values(ctype) \ {v0}] :
                          \A a, b \in 1..SwapThreads : f[a] = f[b] => a = b }
    /\ pc = "ready"
    /\ last = NoCall
    /\ tpc = [t \in 1..SwapThreads |-> "start"]
    /\ texp = << >> /\ tok = << >> /\ tseen = << >>
    /\ rets = << >>

\* Thread t's Exchange(&cell, tdes[t], order).
SwapExchange(t) ==
    /\ tpc[t] = "start"
    /\ LET o == Exchange(cell, tdes[t], ord.succ) IN
          /\ cell' = o.cell
          /\ written' = [op |-> "Exchange", value |-> o.cell]
          /\ rets' = Append(rets, o.ret)
    /\ tpc' = [tpc EXCEPT ![t] = "done"]
    /\ UNCHANGED << ctype, pc, last, texp, tdes, tok, ord, tseen >>

NextSwap == \E t \in 1..SwapThreads : SwapExchange(t)

SpecSwap == InitSwap /\ [][NextSwap]_vars

\* How many times x occurs in a sequence.
CountIn(seq, x) == Cardinality({ i \in 1..Len(seq) : seq[i] = x })

SwapDone == \A t \in 1..SwapThreads : tpc[t] = "done"

\* C17: the returned values are pairwise distinct, exactly one call (the
\* first to take effect) returns v0, and the multiset of the returned values
\* plus the cell's value equals {v0} plus the values stored so far; so when
\* all SwapThreads calls have returned it equals {v0} plus all stored values.
C17_ExchangeHandsOverOnce ==
    /\ \A i, j \in 1..Len(rets) : rets[i] = rets[j] => i = j
    /\ (Len(rets) > 0) => CountIn(rets, ord.init) = 1
    /\ \A x \in Range(ctype) :
          CountIn(rets, x) + (IF cell = x THEN 1 ELSE 0)
             = (IF ord.init = x THEN 1 ELSE 0)
               + Cardinality({ t \in 1..SwapThreads : tpc[t] = "done" /\ tdes[t] = x })
    /\ SwapDone => Len(rets) = SwapThreads

C17_Witness ==
    /\ SwapDone
    /\ Len(rets) = SwapThreads
    /\ rets[1] = ord.init
    /\ rets[2] = tdes[3]
    /\ cell = tdes[1]

(***************************************************************************)
(* Scenario: UndoThreads threads each perform FetchAdd(&cell, v, order)    *)
(* and then FetchSub(&cell, v, order) with their own v.  rets logs each    *)
(* call: the thread, the operation and the value returned.                 *)
(***************************************************************************)
UndoThreads == 2

InitUndo ==
    /\ ctype \in IntegerTypes
    /\ \E c \in Values(ctype) \cup {0}, o \in AtomicMemoryOrder :
          /\ cell = Initialize(c).cell
          /\ written = [op |-> "Initialize", value |-> c]
          /\ ord = [succ |-> o, fail |-> AtomicLoadMemoryOrderRelaxed, init |-> c]
    /\ tdes \in [1..UndoThreads -> Values(ctype)]
    /\ pc = "ready"
    /\ last = NoCall
    /\ tpc = [t \in 1..UndoThreads |-> "add"]
    /\ texp = << >> /\ tok = << >> /\ tseen = << >>
    /\ rets = << >>

UndoFetchAdd(t) ==
    /\ tpc[t] = "add"
    /\ LET o == FetchAdd(ctype, cell, tdes[t], ord.succ) IN
          /\ cell' = o.cell
          /\ written' = [op |-> "FetchAdd", value |-> o.cell]
          /\ rets' = Append(rets, [t |-> t, op |-> "FetchAdd", ret |-> o.ret])
    /\ tpc' = [tpc EXCEPT ![t] = "sub"]
    /\ UNCHANGED << ctype, pc, last, texp, tdes, tok, ord, tseen >>

UndoFetchSub(t) ==
    /\ tpc[t] = "sub"
    /\ LET o == FetchSub(ctype, cell, tdes[t], ord.succ) IN
          /\ cell' = o.cell
          /\ written' = [op |-> "FetchSub", value |-> o.cell]
          /\ rets' = Append(rets, [t |-> t, op |-> "FetchSub", ret |-> o.ret])
    /\ tpc' = [tpc EXCEPT ![t] = "done"]
    /\ UNCHANGED << ctype, pc, last, texp, tdes, tok, ord, tseen >>

NextUndo == \E t \in 1..UndoThreads : UndoFetchAdd(t) \/ UndoFetchSub(t)

SpecUndo == InitUndo /\ [][NextUndo]_vars

\* The sum of the operands added and not yet subtracted, over threads 1..n.
RECURSIVE Outstanding(_)
Outstanding(n) ==
    IF n = 0 THEN 0
    ELSE (IF tpc[n] = "sub" THEN tdes[n] ELSE 0) + Outstanding(n - 1)

\* The cell's value right after the i-th logged call.
ValueAfter(i) == IF i = Len(rets) THEN cell ELSE rets[i + 1].ret

UndoDone == \A t \in 1..UndoThreads : tpc[t] = "done"

\* C18: a FetchAdd(v) directly followed by the same thread's FetchSub(v)
\* leaves the cell at the value c the FetchAdd returned, and the FetchSub
\* returns (c + v) mod 2^w, also across wraparound; in every interleaving the
\* cell equals the initial value plus the operands added and not yet
\* subtracted, modulo 2^w, so when every FetchAdd has been matched by its
\* FetchSub the cell holds its initial value.
C18_FetchSubUndoesFetchAdd ==
    /\ cell \in Range(ctype)
    /\ (cell - (ord.init + Outstanding(UndoThreads))) % (2 ^ Bits(ctype)) = 0
    /\ UndoDone => cell = ord.init
    /\ \A i \in 1..(Len(rets) - 1) :
          (rets[i].op = "FetchAdd" /\ rets[i + 1].op = "FetchSub"
             /\ rets[i].t = rets[i + 1].t) =>
                /\ rets[i + 1].ret \in Range(ctype)
                /\ (rets[i + 1].ret - (rets[i].ret + tdes[rets[i].t])) % (2 ^ Bits(ctype)) = 0
                /\ ValueAfter(i + 1) = rets[i].ret

C18_Witness ==
    /\ UndoDone
    /\ ctype = AtomicUInt8
    /\ ord.init = 250
    /\ tdes[1] = 10
    /\ Len(rets) >= 2
    /\ rets[1] = [t |-> 1, op |-> "FetchAdd", ret |-> 250]
    /\ rets[2] = [t |-> 1, op |-> "FetchSub", ret |-> 4]
    /\ cell = 250

=============================================================================
